---------------------------- MODULE Spec2Model ----------------------------
(***************************************************************************)
(* Collection-and-cache engine of the Redfish exporters.                   *)
(*                                                                         *)
(* The state machine is the exporter process of src/idrac_exporter.py:     *)
(* the background thread update_metrics_loop, the three probes it calls,   *)
(* the module-level dict cached_metrics and the Flask handler metrics().   *)
(* src/multi_ilo_web.py runs the same loop and the same handler over a     *)
(* probe set of twelve functions.                                          *)
(*                                                                         *)
(* A rendered text block (one cache value) is a sequence of lines, each a  *)
(* record whose field fam is the metric family; "\n".join(metrics) + "\n"  *)
(* of an empty list is one blank line (fam = "").                          *)
(***************************************************************************)
EXTENDS Naturals, Sequences, FiniteSets, TLC

(***************************************************************************)
(* Bounds of the model.                                                    *)
(***************************************************************************)
\* longest target list idracs.json holds when the loop runs alone
MaxTargets == 2
\* longest target list idracs.json holds when /metrics is served as well
MaxServed == 2
\* the most targets ilos.json holds when the exporter and the administration
\* application are started together
MaxRunning == 1
\* the most targets ilos.json holds when the administration application starts
MaxIlos == 2
\* the most temperature sensors Chassis/1/Thermal lists
MaxSensors == 2

(***************************************************************************)
(* JSON values and HTTP responses.                                         *)
(***************************************************************************)
\* the JSON object {} (also the empty JSON list [])
EmptyObj == << >>

\* dict.get(field, default)
Get(obj, field, default) == IF field \in DOMAIN obj THEN obj[field] ELSE default

\* requests.get(...) raised (connection error, timeout)
Raise(e) == [kind |-> "raise", exc |-> e]

\* requests.get(...) returned a response with a JSON body
Http(status, json) ==
    [kind |-> "http", status |-> status, decodable |-> TRUE, json |-> json]

\* requests.get(...) returned a response whose body is not JSON
Garbled(status) ==
    [kind |-> "http", status |-> status, decodable |-> FALSE, json |-> EmptyObj]

(***************************************************************************)
(* Text helpers.                                                           *)
(***************************************************************************)
UpperChars == <<"A", "B", "C", "D", "E", "F", "G", "H", "I", "J", "K", "L", "M",
                "N", "O", "P", "Q", "R", "S", "T", "U", "V", "W", "X", "Y", "Z">>
LowerChars == <<"a", "b", "c", "d", "e", "f", "g", "h", "i", "j", "k", "l", "m",
                "n", "o", "p", "q", "r", "s", "t", "u", "v", "w", "x", "y", "z">>

\* str.lower() on one character
LowerChar(c) ==
    IF \E i \in DOMAIN UpperChars : UpperChars[i] = c
    THEN LowerChars[CHOOSE i \in DOMAIN UpperChars : UpperChars[i] = c]
    ELSE c

\* name.replace(" ", "_").lower(), a name being a sequence of characters
CleanName(name) ==
    [i \in DOMAIN name |-> LowerChar(IF name[i] = " " THEN "_" ELSE name[i])]

\* the default fan name 'Inconnu'
Inconnu == <<"I", "n", "c", "o", "n", "n", "u">>

\* the line "\n".join([]) + "\n" consists of
BlankLine == [fam |-> ""]

\* "\n".join(metrics) + "\n", as the sequence of its lines
Join(metrics) == IF metrics = << >> THEN <<BlankLine>> ELSE metrics

\* a probe call that returned its text / that raised
Returned(text) == [raised |-> FALSE, text |-> text, exc |-> ""]
Raised(e) == [raised |-> TRUE, text |-> << >>, exc |-> e]

\* idrac_exporter_error{idrac_ip=..., site=..., error=...} 1
ErrorSample(idrac_ip, site, error) ==
    [fam |-> "idrac_exporter_error", idrac_ip |-> idrac_ip, site |-> site,
     error |-> error, value |-> 1]

(***************************************************************************)
(* Probes.  net is the state of the controller's endpoints when the probe  *)
(* calls them: net.system, net.thermal, net.power, net.storage.            *)
(***************************************************************************)
get_idrac_server_status(idrac_ip, site, net) ==
    LET response == net.system IN
    IF response.kind = "raise" THEN Raised(response.exc)
    ELSE IF response.status = 200
    THEN IF ~response.decodable THEN Raised("JSONDecodeError")
         ELSE LET data == response.json
                  status == Get(data, "Status", EmptyObj)
                  state == Get(status, "State", "Inconnu")
                  health == Get(status, "Health", "Inconnu")
              IN Returned(Join(<<[fam |-> "idrac_server_status",
                                  idrac_ip |-> idrac_ip, site |-> site,
                                  state |-> state, health |-> health,
                                  value |-> 1]>>))
    ELSE Returned(Join(<<ErrorSample(idrac_ip, site,
                                     "Failed to fetch server status")>>))

\* the line of one fan
FanLine(idrac_ip, site, fan) ==
    [fam |-> "idrac_fan_info", idrac_ip |-> idrac_ip, site |-> site,
     name |-> CleanName(Get(fan, "Name", Inconnu)),
     state |-> Get(Get(fan, "Status", EmptyObj), "State", "Inconnu"),
     health |-> Get(Get(fan, "Status", EmptyObj), "Health", "Inconnu"),
     value |-> Get(fan, "Reading", 0)]

get_idrac_fan_info(idrac_ip, site, net) ==
    LET response == net.thermal IN
    IF response.kind = "raise" THEN Raised(response.exc)
    ELSE IF response.status = 200
    THEN IF ~response.decodable THEN Raised("JSONDecodeError")
         ELSE LET data == response.json
                  fans == Get(data, "Fans", << >>)
              IN Returned(Join([i \in DOMAIN fans |->
                                   FanLine(idrac_ip, site, fans[i])]))
    ELSE Returned(Join(<<ErrorSample(idrac_ip, site,
                                     "Failed to fetch fan info")>>))

\* mutant of status_map: a string the dict does not hold gets a value of its own
status_map_open(health) ==
    CASE health = "OK" -> 0
      [] health = "Warning" -> 1
      [] health = "Critical" -> 2
      [] health = "Absent" -> 3
      [] health = "Unknown" -> 4
      [] health = "Disabled" -> 5
      [] health = "Enabled" -> 0
      [] OTHER -> 6

\* status_map.get(health, 4)
status_map(health) ==
    CASE health = "OK" -> 0
      [] health = "Warning" -> 1
      [] health = "Critical" -> 2
      [] health = "Absent" -> 3
      [] health = "Unknown" -> 4
      [] health = "Disabled" -> 5
      [] health = "Enabled" -> 0
      [] OTHER -> 4

\* the components the summary probe queries, in order
components ==
    <<[name |-> "PowerSupplies", endpoint |-> "power"],
      [name |-> "Fans", endpoint |-> "thermal"],
      [name |-> "Storage", endpoint |-> "storage"]>>

\* the body of "for comp in components", from component i on: the probe's
\* result, metrics being the lines appended so far
RECURSIVE SummaryComponents(_, _, _, _, _)
SummaryComponents(idrac_ip, site, net, i, metrics) ==
    IF i > Len(components) THEN Returned(Join(metrics))
    ELSE LET comp == components[i]
             r == net[comp.endpoint]
         IN IF r.kind = "raise" THEN Raised(r.exc)
            ELSE IF r.status = 200
            THEN IF ~r.decodable THEN Raised("JSONDecodeError")
                 ELSE LET comp_data == r.json
                          health_status ==
                              Get(Get(comp_data, "Status", EmptyObj),
                                  "Health", "Unknown")
                          health_value == status_map(health_status)
                      IN SummaryComponents(idrac_ip, site, net, i + 1,
                             Append(metrics,
                                 [fam |-> "idrac_summary_component_health",
                                  idrac_ip |-> idrac_ip, site |-> site,
                                  component |-> comp.name,
                                  health |-> health_status,
                                  value |-> health_value]))
            ELSE SummaryComponents(idrac_ip, site, net, i + 1,
                     Append(metrics,
                         ErrorSample(idrac_ip, site,
                             "Failed to fetch " \o comp.name \o " health")))

get_idrac_summary_component_health(idrac_ip, site, net) ==
    LET response == net.system IN
    IF response.kind = "raise" THEN Raised(response.exc)
    ELSE IF response.status = 200
    THEN IF ~response.decodable THEN Raised("JSONDecodeError")
         ELSE LET data == response.json
                  status == Get(data, "Status", EmptyObj)
                  state == Get(status, "State", "Unknown")
                  health == Get(status, "Health", "Unknown")
                  value == status_map(health)
              IN SummaryComponents(idrac_ip, site, net, 1,
                     <<[fam |-> "idrac_system_status",
                        idrac_ip |-> idrac_ip, site |-> site,
                        state |-> state, health |-> health,
                        value |-> value]>>)
    ELSE Returned(Join(<<ErrorSample(idrac_ip, site,
                                     "Failed to fetch system summary")>>))

\* the probes update_metrics_loop calls for one target, in order, each named
\* by the suffix of its cache key
ProbeSet == <<"server_status", "fan_info", "summary_component_health">>

\* the call the loop makes for probe p
RunProbe(p, ip, site, net) ==
    CASE p = "server_status" -> get_idrac_server_status(ip, site, net)
      [] p = "fan_info" -> get_idrac_fan_info(ip, site, net)
      [] p = "summary_component_health" ->
             get_idrac_summary_component_health(ip, site, net)

\* the cache key f'{ip}_<probe>'
KeyOf(ip, p) == ip \o "_" \o p

\* error_msg = f'# Error fetching metrics: {str(e)}\n'
ErrorMsg(e) == <<[fam |-> "#", text |-> "Error fetching metrics: " \o e]>>


(***************************************************************************)
(* The environment: the records idracs.json may hold and the states the    *)
(* endpoints of a controller may be in when a probe calls them.            *)
(***************************************************************************)
T1 == [ip |-> "10.0.0.5", site |-> "lab", username |-> "admin", password |-> "x"]
T2 == [ip |-> "10.0.0.6", site |-> "dc", username |-> "root", password |-> "y"]
\* a record of the file that lacks its site
TNoSite == [ip |-> "10.0.0.7", username |-> "admin", password |-> "z"]

\* the records of the file when the loop runs alone / when /metrics is served
Targets == {T1, T2, TNoSite}
Served == {T1, TNoSite}

\* the target lists of at most max records of pool, no address twice
TargetLists(pool, max) ==
    UNION {{l \in [1..n -> pool] : \A i, j \in 1..n : l[i] = l[j] => i = j}
           : n \in 0..max}

Fan1 == [Name |-> <<"F", "a", "n", " ", "1">>, Reading |-> 40,
         Status |-> [State |-> "Enabled", Health |-> "OK"]]

\* every endpoint answers 200 with a full payload
NetUp ==
    [system |-> Http(200, [Status |-> [State |-> "Enabled", Health |-> "Warning"]]),
     thermal |-> Http(200, [Fans |-> <<Fan1>>, Status |-> [Health |-> "OK"]]),
     power |-> Http(200, [Status |-> [Health |-> "Critical"]]),
     storage |-> Http(200, EmptyObj)]

\* 200 with payloads that lack the optional fields, an empty fan list, and
\* one component endpoint that answers 503
NetBare ==
    [system |-> Http(200, EmptyObj),
     thermal |-> Http(200, [Fans |-> << >>]),
     power |-> Http(503, EmptyObj),
     storage |-> Http(200, [Status |-> [Health |-> "Degraded"]])]

\* the primary endpoints answer 401 / 404
NetRefused ==
    [system |-> Http(401, EmptyObj),
     thermal |-> Http(404, EmptyObj),
     power |-> Http(200, EmptyObj),
     storage |-> Http(200, EmptyObj)]

\* the controller is unreachable: every call raises
NetDown ==
    [system |-> Raise("ConnectionError"),
     thermal |-> Raise("ConnectionError"),
     power |-> Raise("ConnectionError"),
     storage |-> Raise("ConnectionError")]

\* the thermal endpoint alone is unreachable, the storage body is not JSON
NetFlaky ==
    [system |-> Http(200, [Status |-> [State |-> "Enabled", Health |-> "OK"]]),
     thermal |-> Raise("ReadTimeout"),
     power |-> Http(200, [Status |-> [Health |-> "OK"]]),
     storage |-> Garbled(200)]

Nets == {NetUp, NetBare, NetRefused, NetDown, NetFlaky}

\* what a probe call can end in
Outcomes(p, ilo) == {RunProbe(p, ilo.ip, ilo.site, net) : net \in Nets}

(***************************************************************************)
(* The probes of multi_ilo_web.py.  net is the iLO at ilo_ip: a function   *)
(* from the path of a URL to what requests.get answers for it.  A JSON     *)
(* value whose type the code tests is tagged: Num(n), Str(s) or Null.      *)
(***************************************************************************)
Num(n) == [t |-> "num", v |-> n]
Str(s) == [t |-> "str", v |-> s]
Null == [t |-> "null"]

\* requests.get(f"https://{ilo_ip}{path}", ...); a path the iLO does not
\* serve answers 404
requests_get(net, path) ==
    IF path \in DOMAIN net THEN net[path] ELSE Http(404, EmptyObj)

\* base_url + ... of each probe, as a path
ThermalPath == "/redfish/v1/Chassis/1/Thermal"
SystemPath == "/redfish/v1/Systems/1"
ControllersPath == "/redfish/v1/Systems/1/SmartStorage/ArrayControllers"
MemoryPath == "/redfish/v1/Systems/1/Memory"

\* mutant of IloErrorSample: the line says what failed but not where
IloErrorSampleUnlabelled(ilo_ip, site, error) ==
    [fam |-> "ilo_exporter_error", error |-> error, value |-> 1]

\* ilo_exporter_error{ilo_ip=..., site=..., error=...} 1
IloErrorSample(ilo_ip, site, error) ==
    [fam |-> "ilo_exporter_error", ilo_ip |-> ilo_ip, site |-> site,
     error |-> error, value |-> 1]

\* the lines two consecutive parts of a probe append, or the exception the
\* first of them to raise raised
Then(r1, r2) ==
    IF r1.raised THEN r1
    ELSE IF r2.raised THEN r2
    ELSE Returned(r1.text \o r2.text)

\* a / b rounded to the nearest integer, a tie going to the even one: the
\* rounding of format(x, ".2f") and of round(x, 2) when x is exact
RoundHalfEven(a, b) ==
    LET q == a \div b
        r == a % b
    IN IF 2 * r < b THEN q
       ELSE IF 2 * r > b THEN q + 1
       ELSE IF q % 2 = 0 THEN q ELSE q + 1

\* if isinstance(capacity, (int, float)): capacity / 1024, else 0; the number
\* is returned in hundredths, as f"{capacity_gb:.2f}" prints it
CapacityGb(capacity) ==
    IF capacity.t = "num" THEN RoundHalfEven(capacity.v * 100, 1024) ELSE 0

\* get_fan_info
get_fan_info(ilo_ip, site, net) ==
    LET response == requests_get(net, ThermalPath) IN
    IF response.kind = "raise" THEN Raised(response.exc)
    ELSE IF response.status = 200
    THEN IF ~response.decodable THEN Raised("JSONDecodeError")
         ELSE LET thermal_data == response.json
                  fans == Get(thermal_data, "Fans", << >>)
              IN Returned(Join([i \in DOMAIN fans |->
                     [fam |-> "ilo_fan_info", ilo_ip |-> ilo_ip, site |-> site,
                      name |-> CleanName(Get(fans[i], "Name", Inconnu)),
                      state |-> Get(Get(fans[i], "Status", EmptyObj),
                                    "State", "Inconnu"),
                      health |-> Get(Get(fans[i], "Status", EmptyObj),
                                     "Health", "Inconnu"),
                      value |-> Get(fans[i], "Reading", 0)]]))
    ELSE Returned(Join(<<IloErrorSample(ilo_ip, site, "Failed to fetch fan info")>>))

\* the body of "for member in phys_resp.json().get('Members', [])" for one
\* member: the line of the disk, nothing when its read is not answered 200
PhysicalDisk(ilo_ip, site, net, member) ==
    IF "@odata.id" \notin DOMAIN member THEN Raised("'@odata.id'")
    ELSE LET disk_resp == requests_get(net, member["@odata.id"]) IN
         IF disk_resp.kind = "raise" THEN Raised(disk_resp.exc)
         ELSE IF disk_resp.status # 200 THEN Returned(<< >>)
         ELSE IF ~disk_resp.decodable THEN Raised("JSONDecodeError")
         ELSE LET disk == disk_resp.json
                  capacity == Get(disk, "CapacityMiB", Str("N/A"))
              IN Returned(<<[fam |-> "ilo_storage_physical_disk",
                             ilo_ip |-> ilo_ip, site |-> site,
                             location |-> Get(disk, "Location", "Inconnu"),
                             model |-> Get(disk, "Model", "Inconnu"),
                             capacity_gb |-> CapacityGb(capacity),
                             health |-> Get(Get(disk, "Status", EmptyObj),
                                            "Health", "Inconnu"),
                             value |-> 1]>>)

\* the same for one member of the logical drives
LogicalDisk(ilo_ip, site, net, member) ==
    IF "@odata.id" \notin DOMAIN member THEN Raised("'@odata.id'")
    ELSE LET ld_resp == requests_get(net, member["@odata.id"]) IN
         IF ld_resp.kind = "raise" THEN Raised(ld_resp.exc)
         ELSE IF ld_resp.status # 200 THEN Returned(<< >>)
         ELSE IF ~ld_resp.decodable THEN Raised("JSONDecodeError")
         ELSE LET ld == ld_resp.json
                  size == Get(ld, "CapacityMiB", Str("N/A"))
              IN Returned(<<[fam |-> "ilo_storage_logical_disk",
                             ilo_ip |-> ilo_ip, site |-> site,
                             raid |-> Get(ld, "Raid", "N/A"),
                             capacity_gb |-> CapacityGb(size),
                             health |-> Get(Get(ld, "Status", EmptyObj),
                                            "Health", "Inconnu"),
                             value |-> 1]>>)

\* the members of a drive list from member i on, kind being "physical" or
\* "logical"
RECURSIVE Disks(_, _, _, _, _, _)
Disks(kind, ilo_ip, site, net, members, i) ==
    IF i > Len(members) THEN Returned(<< >>)
    ELSE LET one == IF kind = "physical"
                    THEN PhysicalDisk(ilo_ip, site, net, members[i])
                    ELSE LogicalDisk(ilo_ip, site, net, members[i])
         IN IF one.raised THEN one
            ELSE Then(one, Disks(kind, ilo_ip, site, net, members, i + 1))

\* "Disques physiques" / "Disques logiques": the drive list the controller
\* links to, when it links to one and the list is answered 200
DriveList(kind, ilo_ip, site, net, controller_data) ==
    LET link == IF kind = "physical" THEN "PhysicalDrives" ELSE "LogicalDrives"
        url == Get(Get(Get(controller_data, "Links", EmptyObj), link, EmptyObj),
                   "@odata.id", "")
    IN IF url = "" THEN Returned(<< >>)
       ELSE LET resp == requests_get(net, url) IN
            IF resp.kind = "raise" THEN Raised(resp.exc)
            ELSE IF resp.status # 200 THEN Returned(<< >>)
            ELSE IF ~resp.decodable THEN Raised("JSONDecodeError")
            ELSE Disks(kind, ilo_ip, site, net,
                       Get(resp.json, "Members", << >>), 1)

\* the body of "for ctrl in controllers" for one controller
Controller(ilo_ip, site, net, ctrl) ==
    IF "@odata.id" \notin DOMAIN ctrl THEN Raised("'@odata.id'")
    ELSE LET ctrl_resp == requests_get(net, ctrl["@odata.id"]) IN
         IF ctrl_resp.kind = "raise" THEN Raised(ctrl_resp.exc)
         ELSE IF ctrl_resp.status # 200
         THEN Returned(<<[fam |-> "ilo_storage_controller_error",
                          ilo_ip |-> ilo_ip, site |-> site,
                          controller |-> ctrl["@odata.id"], value |-> 1]>>)
         ELSE IF ~ctrl_resp.decodable THEN Raised("JSONDecodeError")
         ELSE LET controller_data == ctrl_resp.json IN
              Then(Returned(<<[fam |-> "ilo_storage_controller_status",
                               ilo_ip |-> ilo_ip, site |-> site,
                               model |-> Get(controller_data, "Model", "Inconnu"),
                               health |-> Get(Get(controller_data, "Status",
                                                  EmptyObj), "Health", "Inconnu"),
                               value |-> 1]>>),
                   Then(DriveList("physical", ilo_ip, site, net, controller_data),
                        DriveList("logical", ilo_ip, site, net, controller_data)))

\* "for ctrl in controllers" from controller i on
RECURSIVE Controllers(_, _, _, _, _)
Controllers(ilo_ip, site, net, controllers, i) ==
    IF i > Len(controllers) THEN Returned(<< >>)
    ELSE LET one == Controller(ilo_ip, site, net, controllers[i]) IN
         IF one.raised THEN one
         ELSE Then(one, Controllers(ilo_ip, site, net, controllers, i + 1))

\* get_ilo_storage_info
get_ilo_storage_info(ilo_ip, site, net) ==
    LET response == requests_get(net, ControllersPath) IN
    IF response.kind = "raise" THEN Raised(response.exc)
    ELSE IF response.status # 200
    THEN Returned(Join(<<IloErrorSample(ilo_ip, site,
             "Storage controller access error " \o ToString(response.status))>>))
    ELSE IF ~response.decodable THEN Raised("JSONDecodeError")
    ELSE LET lines == Controllers(ilo_ip, site, net,
                                  Get(response.json, "Members", << >>), 1)
         IN IF lines.raised THEN lines ELSE Returned(Join(lines.text))

\* 'sub' in name, both being sequences of characters
Contains(name, sub) ==
    \E i \in 1..(Len(name) - Len(sub) + 1) :
        SubSeq(name, i, i + Len(sub) - 1) = sub

\* the default sensor name 'Unknown'
UnknownName == <<"U", "n", "k", "n", "o", "w", "n">>

\* mutant of sensor_type: Ambient is tested before Inlet
sensor_type_ambient_first(name) ==
    IF Contains(name, <<"C", "P", "U">>) THEN "cpu"
    ELSE IF Contains(name, <<"A", "m", "b", "i", "e", "n", "t">>) THEN "ambient"
    ELSE IF Contains(name, <<"I", "n", "l", "e", "t">>) THEN "inlet"
    ELSE IF Contains(name, <<"C", "h", "i", "p", "s", "e", "t">>) THEN "chipset"
    ELSE IF Contains(name, <<"B", "M", "C">>) THEN "bmc"
    ELSE "continue"

\* the if/elif chain of get_temperature_info: the sensor_type, or "continue"
\* when the else branch is taken
sensor_type(name) ==
    IF Contains(name, <<"C", "P", "U">>) THEN "cpu"
    ELSE IF Contains(name, <<"I", "n", "l", "e", "t">>) THEN "inlet"
    ELSE IF Contains(name, <<"A", "m", "b", "i", "e", "n", "t">>) THEN "ambient"
    ELSE IF Contains(name, <<"C", "h", "i", "p", "s", "e", "t">>) THEN "chipset"
    ELSE IF Contains(name, <<"B", "M", "C">>) THEN "bmc"
    ELSE "continue"

\* "for sensor in data.get('Temperatures', [])" from sensor i on
RECURSIVE TemperatureLines(_, _, _, _)
TemperatureLines(ilo_ip, site, sensors, i) ==
    IF i > Len(sensors) THEN << >>
    ELSE LET sensor == sensors[i]
             name == Get(sensor, "Name", UnknownName)
             reading_celsius == Get(sensor, "ReadingCelsius", Null)
             rest == TemperatureLines(ilo_ip, site, sensors, i + 1)
         IN IF reading_celsius.t # "null" /\ sensor_type(name) # "continue"
            THEN <<[fam |-> "ilo_temperature_celsius", ilo_ip |-> ilo_ip,
                    site |-> site, sensor |-> sensor_type(name),
                    name |-> CleanName(name), value |-> reading_celsius.v]>>
                 \o rest
            ELSE rest

\* get_temperature_info
get_temperature_info(ilo_ip, site, net) ==
    LET response == requests_get(net, ThermalPath) IN
    IF response.kind = "raise" THEN Raised(response.exc)
    ELSE IF response.status = 200
    THEN IF ~response.decodable THEN Raised("JSONDecodeError")
         ELSE Returned(Join(TemperatureLines(ilo_ip, site,
                  Get(response.json, "Temperatures", << >>), 1)))
    ELSE Returned(Join(<<IloErrorSample(ilo_ip, site,
                                        "Failed to fetch temperature info")>>))

\* the truth value Python gives a JSON value in "if capacity_mib:"
Truthy(v) ==
    CASE v.t = "num" -> v.v # 0
      [] v.t = "str" -> v.v # ""
      [] OTHER -> FALSE

\* "for mem in memory_data.get('Members', [])" from member i on: the total
\* capacity in hundredths of a GB, total_capacity being the sum so far, or
\* the exception raised
RECURSIVE MemoryModules(_, _, _, _)
MemoryModules(net, members, i, total_capacity) ==
    IF i > Len(members) THEN [raised |-> FALSE, total |-> total_capacity]
    ELSE IF "@odata.id" \notin DOMAIN members[i]
    THEN [raised |-> TRUE, exc |-> "'@odata.id'"]
    ELSE LET mem_response == requests_get(net, members[i]["@odata.id"]) IN
         IF mem_response.kind = "raise"
         THEN [raised |-> TRUE, exc |-> mem_response.exc]
         ELSE IF mem_response.status # 200
         THEN MemoryModules(net, members, i + 1, total_capacity)
         ELSE IF ~mem_response.decodable
         THEN [raised |-> TRUE, exc |-> "JSONDecodeError"]
         ELSE LET capacity_mib == Get(mem_response.json, "CapacityMiB", Null) IN
              IF ~Truthy(capacity_mib)
              THEN MemoryModules(net, members, i + 1, total_capacity)
              ELSE IF capacity_mib.t # "num"
              THEN [raised |-> TRUE,
                    exc |-> "unsupported operand type(s) for /: 'str' and 'int'"]
              ELSE MemoryModules(net, members, i + 1,
                       total_capacity
                           + RoundHalfEven(capacity_mib.v * 100, 1024))

\* get_memory_info; the value of its line is in hundredths of a GB
get_memory_info(ilo_ip, site, net) ==
    LET response == requests_get(net, MemoryPath) IN
    IF response.kind = "raise" THEN Raised(response.exc)
    ELSE IF response.status = 200
    THEN IF ~response.decodable THEN Raised("JSONDecodeError")
         ELSE LET sum == MemoryModules(net, Get(response.json, "Members", << >>),
                                       1, 0)
              IN IF sum.raised THEN Raised(sum.exc)
                 ELSE Returned(Join(<<[fam |-> "ilo_memory_total_gb",
                                       ilo_ip |-> ilo_ip, site |-> site,
                                       gb_x100 |-> sum.total]>>))
    ELSE Returned(Join(<<IloErrorSample(ilo_ip, site,
                                        "Memory endpoint access failed")>>))

\* the keys of AggregateHealthStatus get_system_summary passes over
SkippedComponents ==
    {"AgentlessManagementService", "BiosOrHardwareHealth", "FanRedundancy",
     "PowerSupplyRedundancy"}

\* "for key, val in summary.items()" from item i on, summary being the items
\* [key, val] of the dict in order
RECURSIVE SummaryItems(_, _, _, _)
SummaryItems(ilo_ip, site, summary, i) ==
    IF i > Len(summary) THEN << >>
    ELSE LET key == summary[i].key
             val == summary[i].val
         IN IF key \in SkippedComponents
            THEN SummaryItems(ilo_ip, site, summary, i + 1)
            ELSE LET health_val == Get(Get(val, "Status", EmptyObj),
                                       "Health", "Unknown")
                     num == status_map(health_val)
                 IN <<[fam |-> "ilo_summary_component_health",
                       ilo_ip |-> ilo_ip, site |-> site, component |-> key,
                       health |-> health_val, value |-> num]>>
                    \o SummaryItems(ilo_ip, site, summary, i + 1)

\* get_system_summary
get_system_summary(ilo_ip, site, net) ==
    LET response == requests_get(net, SystemPath) IN
    IF response.kind = "raise" THEN Raised(response.exc)
    ELSE IF response.status = 200
    THEN IF ~response.decodable THEN Raised("JSONDecodeError")
         ELSE LET system_data == response.json
                  status == Get(system_data, "Status", EmptyObj)
                  state == Get(status, "State", "Unknown")
                  health == Get(status, "Health", "Unknown")
                  value == status_map(health)
                  oem == Get(system_data, "Oem", EmptyObj)
                  oem_info == IF Get(oem, "Hp", EmptyObj) # EmptyObj
                              THEN Get(oem, "Hp", EmptyObj)
                              ELSE Get(oem, "Hpe", EmptyObj)
                  summary == Get(oem_info, "AggregateHealthStatus", << >>)
              IN Returned(Join(
                     <<[fam |-> "ilo_system_status", ilo_ip |-> ilo_ip,
                        site |-> site, state |-> state, health |-> health,
                        value |-> value]>>
                     \o (IF summary # << >>
                         THEN SummaryItems(ilo_ip, site, summary, 1)
                         ELSE <<[fam |-> "ilo_oem_summary_missing",
                                 ilo_ip |-> ilo_ip, site |-> site,
                                 value |-> 1]>>)))
    ELSE Returned(Join(<<IloErrorSample(ilo_ip, site,
                                        "Failed to fetch system summary")>>))

\* the probes of update_metrics_loop modelled here, each named by the suffix
\* of its cache key
IloProbes ==
    {"fan_info", "storage_info", "system_summary", "temperature_info",
     "memory_total"}

\* the call update_metrics_loop makes for probe fn
RunIloProbe(fn, ip, site, net) ==
    CASE fn = "fan_info" -> get_fan_info(ip, site, net)
      [] fn = "storage_info" -> get_ilo_storage_info(ip, site, net)
      [] fn = "system_summary" -> get_system_summary(ip, site, net)
      [] fn = "temperature_info" -> get_temperature_info(ip, site, net)
      [] fn = "memory_total" -> get_memory_info(ip, site, net)

\* the URL a probe requests first
PrimaryPath(fn) ==
    CASE fn = "fan_info" -> ThermalPath
      [] fn = "storage_info" -> ControllersPath
      [] fn = "system_summary" -> SystemPath
      [] fn = "temperature_info" -> ThermalPath
      [] fn = "memory_total" -> MemoryPath

(***************************************************************************)
(* The environment of the iLO probes: what an iLO may answer.              *)
(***************************************************************************)
\* answers other than 200 with a JSON body
Refusals ==
    {Http(401, EmptyObj), Http(404, EmptyObj), Http(500, EmptyObj),
     Garbled(503)}
Failures == Refusals \cup {Raise("ConnectionError")}

\* a reference {"@odata.id": path}
Ref(path) == "@odata.id" :> path

\* Chassis/1/Thermal as get_fan_info reads it
FanNets ==
    {ThermalPath :> r :
        r \in Failures \cup
              {Http(200, [Fans |-> <<Fan1>>]),
               Http(200, [Fans |-> <<Fan1, [Reading |-> 12]>>]),
               Http(200, EmptyObj), Garbled(200)}}

\* the two array controllers of an iLO and their drives
Ctrl1 == ControllersPath \o "/0"
Ctrl2 == ControllersPath \o "/2"
DrivesOf(c) == c \o "/DiskDrives"
DiskOf(c) == c \o "/DiskDrives/1"
LogicalsOf(c) == c \o "/LogicalDrives"
LogicalOf(c) == c \o "/LogicalDrives/1"

\* a controller that links to its drive lists, and one that links to nothing
CtrlFull(c, model) ==
    Http(200, [Model |-> model, Status |-> [Health |-> "OK"],
               Links |-> [PhysicalDrives |-> Ref(DrivesOf(c)),
                          LogicalDrives |-> Ref(LogicalsOf(c))]])
CtrlBare == Http(200, [Status |-> [Health |-> "Warning"]])

\* the values CapacityMiB may have; 128 MiB is 0.125 GB, a tie of the rounding
Capacities == {Num(2048), Num(128), Num(0), Num(1500), Str("N/A"), Str(""), Null}

\* a physical or logical drive, with or without its CapacityMiB
Drives ==
    {Http(200, [Location |-> "1I:1:1", Model |-> "EG0600", Raid |-> "1",
                CapacityMiB |-> c, Status |-> [Health |-> "OK"]])
        : c \in Capacities}
    \cup {Http(200, [Location |-> "1I:1:2"]), Http(404, EmptyObj)}

\* an iLO as get_ilo_storage_info reads it: the controller list, what each
\* controller answers, and the drive each drive list names
StorageNets ==
    {ControllersPath :> r : r \in Failures \cup {Http(200, EmptyObj), Garbled(200)}}
    \cup
    {(ControllersPath :> Http(200, [Members |-> members]))
       @@ (Ctrl1 :> r1) @@ (Ctrl2 :> r2)
       @@ (DrivesOf(Ctrl1) :> Http(200, [Members |-> <<Ref(DiskOf(Ctrl1))>>]))
       @@ (LogicalsOf(Ctrl1) :> Http(200, [Members |-> <<Ref(LogicalOf(Ctrl1))>>]))
       @@ (DrivesOf(Ctrl2) :> Http(200, [Members |-> <<Ref(DiskOf(Ctrl2))>>]))
       @@ (DiskOf(Ctrl1) :> disk) @@ (LogicalOf(Ctrl1) :> disk)
       @@ (DiskOf(Ctrl2) :> disk)
        : members \in {<<Ref(Ctrl1)>>, <<Ref(Ctrl1), Ref(Ctrl2)>>,
                       <<Ref(Ctrl2), Ref(Ctrl1)>>},
          r1 \in {CtrlFull(Ctrl1, "P408i"), CtrlBare, Http(503, EmptyObj)},
          r2 \in {CtrlFull(Ctrl2, "E208e"), Http(404, EmptyObj),
                  Raise("ReadTimeout")},
          disk \in Drives}

\* the strings a Health field may hold: those of status_map and others
HealthStrings ==
    {"OK", "Enabled", "Warning", "Critical", "Absent", "Unknown", "Disabled",
     "ok", "Degraded", "Redundant", ""}

\* a Status object, with or without its Health
Statuses ==
    {[State |-> "Enabled", Health |-> h] : h \in HealthStrings}
    \cup {[State |-> "Enabled"], EmptyObj}

\* the items of AggregateHealthStatus; the redundancy items are strings
SummaryOf(h) ==
    <<[key |-> "FanRedundancy", val |-> "Redundant"],
      [key |-> "Fans", val |-> [Status |-> [Health |-> h]]],
      [key |-> "BiosOrHardwareHealth", val |-> [Status |-> [Health |-> "Critical"]]],
      [key |-> "Memory", val |-> EmptyObj]>>

\* the Oem object of Systems/1, under either vendor name, or without summary
Oems ==
    UNION {{[Hp |-> [AggregateHealthStatus |-> SummaryOf(h)]],
            [Hp |-> EmptyObj, Hpe |-> [AggregateHealthStatus |-> SummaryOf(h)]]}
           : h \in {"OK", "Warning", "Disabled", "Failed"}}
    \cup {[Hpe |-> EmptyObj]}

\* Systems/1 as get_system_summary reads it
SummaryNets ==
    {SystemPath :> r : r \in Failures \cup {Garbled(200)}}
    \cup {SystemPath :> Http(200, [Status |-> st, Oem |-> oem])
            : st \in Statuses, oem \in Oems}
    \cup {SystemPath :> Http(200, [Status |-> st]) : st \in Statuses}

\* the names a temperature sensor may have
SensorNames ==
    {<<"0", "1", "-", "I", "n", "l", "e", "t", " ", "A", "m", "b", "i", "e", "n", "t">>,
     <<"0", "2", "-", "C", "P", "U", " ", "1">>,
     <<"C", "P", "U", " ", "I", "n", "l", "e", "t">>,
     <<"A", "m", "b", "i", "e", "n", "t", " ", "Z", "o", "n", "e">>,
     <<"C", "h", "i", "p", "s", "e", "t">>,
     <<"B", "M", "C", " ", "C", "h", "i", "p", "s", "e", "t">>,
     <<"i", "L", "O", " ", "B", "M", "C">>,
     <<"c", "p", "u", " ", "1">>,
     <<"P", "/", "S", " ", "1">>}

\* the sensors of Chassis/1/Thermal: each name with a reading, and sensors
\* whose reading is 0, null or missing, or that have no name
Sensors ==
    {[Name |-> n, ReadingCelsius |-> Num(40)] : n \in SensorNames}
    \cup {[Name |-> <<"0", "1", "-", "I", "n", "l", "e", "t", " ", "A", "m", "b", "i", "e", "n", "t">>, ReadingCelsius |-> Num(0)],
          [Name |-> <<"0", "2", "-", "C", "P", "U", " ", "1">>, ReadingCelsius |-> Null],
          [Name |-> <<"C", "h", "i", "p", "s", "e", "t">>],
          [ReadingCelsius |-> Num(21)], EmptyObj}

\* Chassis/1/Thermal as get_temperature_info reads it
TemperatureNets ==
    {ThermalPath :> r : r \in Failures \cup {Http(200, EmptyObj), Garbled(200)}}
    \cup {ThermalPath :> Http(200, [Temperatures |-> sensors])
            : sensors \in UNION {[1..n -> Sensors] : n \in 0..MaxSensors}}

\* the two memory modules of an iLO
Dimm1 == MemoryPath \o "/proc1dimm1"
Dimm2 == MemoryPath \o "/proc1dimm2"

\* a memory module, with or without its CapacityMiB, or one that is not served
Dimms ==
    {Http(200, [CapacityMiB |-> c]) : c \in Capacities}
    \cup {Http(200, EmptyObj), Http(404, EmptyObj)}

\* Systems/1/Memory and its members as get_memory_info reads them
MemoryNets ==
    {MemoryPath :> r : r \in Failures \cup {Http(200, EmptyObj), Garbled(200)}}
    \cup {(MemoryPath :> Http(200, [Members |-> <<Ref(Dimm1), Ref(Dimm2)>>]))
            @@ (Dimm1 :> d1) @@ (Dimm2 :> d2)
            : d1 \in Dimms, d2 \in Dimms}

\* the iLOs probe fn may be called on
IloNets(fn) ==
    CASE fn = "fan_info" -> FanNets
      [] fn = "storage_info" -> StorageNets
      [] fn = "system_summary" -> SummaryNets
      [] fn = "temperature_info" -> TemperatureNets
      [] fn = "memory_total" -> MemoryNets

\* the endpoints of an iDRAC as get_idrac_summary_component_health reads them
IdracSummaryNets ==
    {[system |-> Http(200, [Status |-> st]),
      thermal |-> Http(200, [Status |-> [Health |-> "Enabled"]]),
      power |-> power,
      storage |-> Http(200, [Status |-> [Health |-> "Absent"]])]
        : st \in Statuses,
          power \in {Http(200, [Status |-> [Health |-> "Failed"]]),
                     Http(200, EmptyObj), Http(503, EmptyObj)}}

\* a call of a probe: the probe, the target and the controller it reaches
Calls ==
    UNION {{[fn |-> fn, ilo |-> t, net |-> n] : t \in {T1, T2}, n \in IloNets(fn)}
           : fn \in IloProbes}
    \cup {[fn |-> "summary_component_health", ilo |-> t, net |-> n]
            : t \in {T1, T2}, n \in IdracSummaryNets \cup Nets}

(***************************************************************************)
(* State.                                                                  *)
(***************************************************************************)
VARIABLES
    idracs,          \* the target list loaded when the module is imported
    cached_metrics,  \* the dict, as its entries [k, v] in insertion order
    pc,              \* where update_metrics_loop is
    ti,              \* index in idracs of the target the for loop is at
    pi,              \* index in ProbeSet of the next probe call
    exc,             \* str(e) of the exception the loop-level handler caught
    ei,              \* index of the next entry the handler's for loop visits
    hpc,             \* where the /metrics handler is
    it_used,         \* the dict size the values() iterator was created at
    it_pos,          \* the index of the next entry the iterator returns
    output,          \* the handler's string, as its lines: the body of the
                     \* response being built, then of the response sent
    \* history, read by the properties only
    called,          \* the probe calls <<ti, pi>> made in the current cycle
    failed,          \* the call that raised in the current cycle, or NoCall
    ran,             \* the keys whose probe has returned at least once
    readLog,         \* the entries [k, v] the current request has read
    tainted,         \* a cache write happened since the current request began
    stable,          \* the output of the last request read with no write
                     \* since it began, or NoOutput
    listed,          \* ilos.json as it was when the current cycle began
    returned,        \* the probe calls that returned in the current cycle, in
                     \* order, each with its text: [c |-> <<ti, pi>>, text |-> ...]
    \* the administration application (ilo_manager.py), another process
    ilos,            \* its list of targets, loaded when it is imported
    ilos_json,       \* the file ilos.json, as the list json.load returns
    request,         \* the request it handled last
    \* one probe called on its own
    call,            \* the probe, its arguments and what the network answers
    reply            \* what the call returned or raised, or NotCalled

loopVars == <<idracs, cached_metrics, pc, ti, pi, exc, ei>>
handlerVars == <<hpc, it_used, it_pos, output>>
histVars == <<called, failed, ran, readLog, tainted, stable>>
adminVars == <<ilos, ilos_json, request>>
probeVars == <<call, reply>>
sideVars == <<adminVars, probeVars>>
vars == <<loopVars, handlerVars, histVars, listed, returned, sideVars>>

NoCall == <<0, 0>>
NoOutput == <<[fam |-> "none"]>>
NoRequest == [route |-> "none"]
NotCalled == [raised |-> FALSE, text |-> <<[fam |-> "none"]>>, exc |-> ""]
Idle == [fn |-> "none"]

\* the keys of the dict, in insertion order
Keys(d) == [i \in DOMAIN d |-> d[i].k]
HasKey(d, key) == \E i \in DOMAIN d : d[i].k = key
\* d[key]
Lookup(d, key) == d[CHOOSE i \in DOMAIN d : d[i].k = key].v

\* mutant of SetItem: d[key] += value, the new text joins the old one
SetItemAppend(d, key, value) ==
    IF HasKey(d, key)
    THEN [i \in DOMAIN d |->
             IF d[i].k = key THEN [k |-> key, v |-> d[i].v \o value] ELSE d[i]]
    ELSE Append(d, [k |-> key, v |-> value])

\* d[key] = value: an existing key keeps its place, a new key goes last
SetItem(d, key, value) ==
    IF HasKey(d, key)
    THEN [i \in DOMAIN d |-> IF d[i].k = key THEN [k |-> key, v |-> value] ELSE d[i]]
    ELSE Append(d, [k |-> key, v |-> value])

\* the state once the module is imported and the thread started
InitWith(lists) ==
    /\ idracs \in lists
    /\ cached_metrics = << >>
    /\ pc = "while"
    /\ ti = 0 /\ pi = 0 /\ exc = "" /\ ei = 0
    /\ hpc = "idle" /\ it_used = 0 /\ it_pos = 0 /\ output = << >>
    /\ called = {} /\ failed = NoCall /\ ran = {}
    /\ readLog = << >> /\ tainted = FALSE /\ stable = NoOutput
    /\ ilos_json = idracs /\ ilos = idracs /\ listed = idracs
    /\ returned = << >>
    /\ request = NoRequest
    /\ call = Idle /\ reply = NotCalled

(***************************************************************************)
(* update_metrics_loop.                                                    *)
(***************************************************************************)
\* every cache write taints the request in progress
NoteWrite == /\ tainted' = TRUE
             /\ stable' = NoOutput

\* while True: try: for idrac in idracs  (the for loop starts)
BeginCycle ==
    /\ pc = "while"
    /\ pc' = "for" /\ ti' = 1
    /\ called' = {} /\ failed' = NoCall
    /\ UNCHANGED <<idracs, cached_metrics, pi, exc, ei, handlerVars,
                   ran, readLog, tainted, stable>>
    /\ listed' = ilos_json /\ returned' = << >>
    /\ UNCHANGED sideVars

\* the for loop takes its next target and reads its four fields, or ends
NextTarget ==
    /\ pc = "for"
    /\ IF ti > Len(idracs)
       THEN /\ pc' = "sleep" /\ ti' = 0
            /\ UNCHANGED <<pi, exc>>
       ELSE IF "site" \notin DOMAIN idracs[ti]
       THEN /\ pc' = "except" /\ exc' = "'site'"
            /\ UNCHANGED <<ti, pi>>
       ELSE /\ pc' = "probe" /\ pi' = 1
            /\ UNCHANGED <<ti, exc>>
    /\ UNCHANGED <<idracs, cached_metrics, ei, handlerVars, histVars>>
    /\ UNCHANGED <<sideVars, listed, returned>>

\* mutant of CallProbe: cached_metrics.setdefault(key, text), the first
\* text a key was given stays
CallProbeSetDefault ==
    /\ pc = "probe"
    /\ \E r \in Outcomes(ProbeSet[pi], idracs[ti]) :
         LET key == KeyOf(idracs[ti].ip, ProbeSet[pi]) IN
         /\ called' = called \cup {<<ti, pi>>}
         /\ IF r.raised
            THEN /\ pc' = "except" /\ exc' = r.exc
                 /\ failed' = <<ti, pi>>
                 /\ UNCHANGED <<cached_metrics, ti, pi, ran, tainted, stable,
                                returned>>
            ELSE /\ cached_metrics' =
                        IF HasKey(cached_metrics, key) THEN cached_metrics
                        ELSE SetItem(cached_metrics, key, r.text)
                 /\ ran' = ran \cup {key}
                 /\ returned' = Append(returned, [c |-> <<ti, pi>>, text |-> r.text])
                 /\ NoteWrite
                 /\ IF pi < Len(ProbeSet)
                    THEN pi' = pi + 1 /\ UNCHANGED <<pc, ti>>
                    ELSE pi' = 0 /\ pc' = "for" /\ ti' = ti + 1
                 /\ UNCHANGED <<exc, failed>>
    /\ UNCHANGED <<idracs, ei, handlerVars, readLog>>
    /\ UNCHANGED <<sideVars, listed>>

\* cached_metrics[f'{ip}_<probe>'] = <probe>(ip, site, username, password)
CallProbe ==
    /\ pc = "probe"
    /\ \E r \in Outcomes(ProbeSet[pi], idracs[ti]) :
         LET key == KeyOf(idracs[ti].ip, ProbeSet[pi]) IN
         /\ called' = called \cup {<<ti, pi>>}
         /\ IF r.raised
            THEN /\ pc' = "except" /\ exc' = r.exc
                 /\ failed' = <<ti, pi>>
                 /\ UNCHANGED <<cached_metrics, ti, pi, ran, tainted, stable,
                                returned>>
            ELSE /\ cached_metrics' = SetItem(cached_metrics, key, r.text)
                 /\ ran' = ran \cup {key}
                 /\ returned' = Append(returned, [c |-> <<ti, pi>>, text |-> r.text])
                 /\ NoteWrite
                 /\ IF pi < Len(ProbeSet)
                    THEN pi' = pi + 1 /\ UNCHANGED <<pc, ti>>
                    ELSE pi' = 0 /\ pc' = "for" /\ ti' = ti + 1
                 /\ UNCHANGED <<exc, failed>>
    /\ UNCHANGED <<idracs, ei, handlerVars, readLog>>
    /\ UNCHANGED <<sideVars, listed>>

\* mutant of ExceptBegin: the handler re-raises and the thread ends
ExceptReraise ==
    /\ pc = "except"
    /\ pc' = "dead"
    /\ UNCHANGED <<idracs, cached_metrics, ti, pi, exc, ei, handlerVars, histVars>>
    /\ UNCHANGED <<sideVars, listed, returned>>

\* except Exception as e: error_msg = ...; for key in cached_metrics
ExceptBegin ==
    /\ pc = "except"
    /\ pc' = "degrade" /\ ei' = 1
    /\ ti' = 0 /\ pi' = 0
    /\ UNCHANGED <<idracs, cached_metrics, exc, handlerVars, histVars>>
    /\ returned' = << >>
    /\ UNCHANGED <<sideVars, listed>>

\* mutant of ExceptStep: the for loop is left after its first entry
ExceptStepBreak ==
    /\ pc = "degrade"
    /\ IF ei > Len(cached_metrics) \/ ei > 1
       THEN /\ pc' = "sleep" /\ ei' = 0
            /\ UNCHANGED <<cached_metrics, tainted, stable>>
       ELSE /\ cached_metrics' =
                   SetItem(cached_metrics, cached_metrics[ei].k, ErrorMsg(exc))
            /\ ei' = ei + 1
            /\ NoteWrite
            /\ UNCHANGED pc
    /\ UNCHANGED <<idracs, ti, pi, exc, handlerVars, called, failed, ran, readLog>>
    /\ UNCHANGED <<sideVars, listed, returned>>

\* the handler's for loop: cached_metrics[key] = error_msg, or the loop ends
ExceptStep ==
    /\ pc = "degrade"
    /\ IF ei > Len(cached_metrics)
       THEN /\ pc' = "sleep" /\ ei' = 0
            /\ UNCHANGED <<cached_metrics, tainted, stable>>
       ELSE /\ cached_metrics' =
                   SetItem(cached_metrics, cached_metrics[ei].k, ErrorMsg(exc))
            /\ ei' = ei + 1
            /\ NoteWrite
            /\ UNCHANGED pc
    /\ UNCHANGED <<idracs, ti, pi, exc, handlerVars, called, failed, ran, readLog>>
    /\ UNCHANGED <<sideVars, listed, returned>>

\* the keys of the targets in a list
KeysOfList(list) ==
    {KeyOf(list[i].ip, ProbeSet[p]) : i \in DOMAIN list, p \in DOMAIN ProbeSet}

\* mutant of Sleep: the entries of targets absent from ilos.json are evicted
SleepEvict ==
    /\ pc = "sleep"
    /\ pc' = "while" /\ exc' = ""
    /\ cached_metrics' =
           SelectSeq(cached_metrics, LAMBDA e : e.k \in KeysOfList(ilos_json))
    /\ UNCHANGED <<idracs, ti, pi, ei, handlerVars, histVars>>
    /\ UNCHANGED <<sideVars, listed, returned>>

\* time.sleep(60), then the next iteration of while True
Sleep ==
    /\ pc = "sleep"
    /\ pc' = "while" /\ exc' = ""
    /\ UNCHANGED <<idracs, cached_metrics, ti, pi, ei, handlerVars, histVars>>
    /\ UNCHANGED <<sideVars, listed, returned>>

Loop == BeginCycle \/ NextTarget \/ CallProbe \/ ExceptBegin \/ ExceptStep \/ Sleep

(***************************************************************************)
(* The /metrics handler.                                                   *)
(***************************************************************************)
\* mutant of MetricsBegin: output is a module-level string, never reset
MetricsBeginKeep ==
    /\ hpc = "idle"
    /\ hpc' = "iter"
    /\ it_used' = Len(cached_metrics) /\ it_pos' = 1
    /\ readLog' = << >> /\ tainted' = FALSE
    /\ UNCHANGED <<loopVars, output, called, failed, ran, stable>>
    /\ UNCHANGED <<sideVars, listed, returned>>

\* output = ""; the for statement creates the iterator of cached_metrics.values()
MetricsBegin ==
    /\ hpc = "idle"
    /\ hpc' = "iter"
    /\ output' = << >>
    /\ it_used' = Len(cached_metrics) /\ it_pos' = 1
    /\ readLog' = << >> /\ tainted' = FALSE
    /\ UNCHANGED <<loopVars, called, failed, ran, stable>>
    /\ UNCHANGED <<sideVars, listed, returned>>

\* one step of the iterator: RuntimeError when the dict changed size, the
\* next value (output += value), or the end of the loop
MetricsNext ==
    /\ hpc = "iter"
    /\ IF it_used # Len(cached_metrics)
       THEN /\ hpc' = "error"
            /\ UNCHANGED <<it_pos, output, readLog>>
       ELSE IF it_pos > Len(cached_metrics)
       THEN /\ hpc' = "ok"
            /\ UNCHANGED <<it_pos, output, readLog>>
       ELSE /\ output' = output \o cached_metrics[it_pos].v
            /\ readLog' = Append(readLog, cached_metrics[it_pos])
            /\ it_pos' = it_pos + 1
            /\ UNCHANGED hpc
    /\ UNCHANGED <<loopVars, it_used, called, failed, ran, tainted, stable>>
    /\ UNCHANGED <<sideVars, listed, returned>>

\* mutant of MetricsReturn: the handler empties the dict it has served
MetricsReturnClear ==
    /\ hpc = "ok"
    /\ hpc' = "idle"
    /\ cached_metrics' = << >>
    /\ stable' = IF tainted THEN NoOutput ELSE output
    /\ it_used' = 0 /\ it_pos' = 0
    /\ readLog' = << >> /\ tainted' = FALSE
    /\ UNCHANGED <<idracs, pc, ti, pi, exc, ei, output, called, failed, ran>>
    /\ UNCHANGED <<sideVars, listed, returned>>

\* return Response(output, mimetype='text/plain'): status 200
MetricsReturn ==
    /\ hpc = "ok"
    /\ hpc' = "idle"
    /\ stable' = IF tainted THEN NoOutput ELSE output
    /\ it_used' = 0 /\ it_pos' = 0
    /\ readLog' = << >> /\ tainted' = FALSE
    /\ UNCHANGED <<loopVars, output, called, failed, ran>>
    /\ UNCHANGED <<sideVars, listed, returned>>

\* the RuntimeError leaves the view function: Flask answers 500
MetricsFail ==
    /\ hpc = "error"
    /\ hpc' = "idle"
    /\ output' = << >> /\ it_used' = 0 /\ it_pos' = 0
    /\ readLog' = << >> /\ tainted' = FALSE
    /\ UNCHANGED <<loopVars, called, failed, ran, stable>>
    /\ UNCHANGED <<sideVars, listed, returned>>

metrics == MetricsBegin \/ MetricsNext \/ MetricsReturn \/ MetricsFail

Next == Loop \/ metrics

\* the exporter process: the loop thread and the request handler
Init == InitWith(TargetLists(Served, MaxServed))
Spec == Init /\ [][Next]_vars

\* the loop thread while no request is being served
LoopInit == InitWith(TargetLists(Targets, MaxTargets))
LoopSpec == LoopInit /\ [][Loop]_vars

\* each outbound call returns or raises, the sleep ends, the thread is scheduled
FairLoopSpec == LoopSpec /\ WF_vars(Loop)

(***************************************************************************)
(* The administration application, ilo_manager.py: a process of its own    *)
(* with its own list ilos, sharing with the exporter the file ilos.json    *)
(* alone.  The exporter's list (ilos in multi_ilo_web.py, idracs in        *)
(* idrac_exporter.py) is the variable idracs.                              *)
(***************************************************************************)
\* POST /add with the four fields of the form, or GET /add; sites is whether
\* sites.json can be opened
AddRequest(method, form, sites) ==
    [route |-> "/add", method |-> method, form |-> form, sites |-> sites]
\* GET /delete/<ip>
DeleteRequest(ip) == [route |-> "/delete", ip |-> ip]

\* new_ilo = {"ip": ip, "site": site, "username": username, "password": password}
new_ilo(form) ==
    [ip |-> form.ip, site |-> form.site,
     username |-> form.username, password |-> form.password]

\* any(i['ip'] == ip for i in ilos)
AnyIp(list, ip) == \E i \in DOMAIN list : list[i].ip = ip

\* mutant of add_ilo: the record is appended whether or not its ip is listed
add_ilo_always(req) ==
    /\ req.route = "/add"
    /\ request' = req
    /\ IF req.sites /\ req.method = "POST"
       THEN /\ ilos' = Append(ilos, new_ilo(req.form))
            /\ ilos_json' = ilos'
       ELSE UNCHANGED <<ilos, ilos_json>>
    /\ UNCHANGED <<loopVars, handlerVars, histVars, listed, returned, probeVars>>

\* add_ilo: sites.json is opened first (a failure answers 500); a POST whose
\* ip is not listed appends the record and saves the list; anything else
\* leaves the list and the file as they are
add_ilo(req) ==
    /\ req.route = "/add"
    /\ request' = req
    /\ IF req.sites /\ req.method = "POST" /\ ~AnyIp(ilos, req.form.ip)
       THEN /\ ilos' = Append(ilos, new_ilo(req.form))
            /\ ilos_json' = ilos'
       ELSE UNCHANGED <<ilos, ilos_json>>
    /\ UNCHANGED <<loopVars, handlerVars, histVars, listed, returned, probeVars>>

\* delete_ilo: ilos = [i for i in ilos if i['ip'] != ip]; save_ilos()
delete_ilo(req) ==
    /\ req.route = "/delete"
    /\ request' = req
    /\ ilos' = SelectSeq(ilos, LAMBDA i : i.ip # req.ip)
    /\ ilos_json' = ilos'
    /\ UNCHANGED <<loopVars, handlerVars, histVars, listed, returned, probeVars>>

\* the requests an administrator sends while the exporter runs
RunningRequests ==
    {AddRequest("POST", T2, TRUE), DeleteRequest(T1.ip), DeleteRequest(T2.ip)}

\* the exporter's loop and the administration application side by side: both
\* were started on the same ilos.json
SystemInit == InitWith(TargetLists(Served, MaxRunning))
SystemNext ==
    \/ Loop
    \/ \E req \in RunningRequests : add_ilo(req)
    \/ \E req \in RunningRequests : delete_ilo(req)
SystemSpec == SystemInit /\ [][SystemNext]_vars

\* the records the form of /add can make: an address and a site
AdminIps == {"10.0.0.5", "10.0.0.6", "10.0.0.7"}
Forms ==
    {[ip |-> ip, site |-> site, username |-> "admin", password |-> "x"]
        : ip \in AdminIps, site \in {"lab", "dc"}}

\* the lists of at most max records of pool in which no address is twice
AddressLists(pool, max) ==
    {l \in TargetLists(pool, max) :
        \A i, j \in DOMAIN l : l[i].ip = l[j].ip => i = j}

\* the requests an administrator can send
ManagerRequests ==
    {AddRequest("POST", form, sites) : form \in Forms, sites \in BOOLEAN}
    \cup {AddRequest("GET", EmptyObj, TRUE)}
    \cup {DeleteRequest(ip) : ip \in AdminIps \cup {"10.9.9.9"}}

\* the administration application alone, started on an ilos.json in which
\* no address is twice
ManagerInit == InitWith(AddressLists(Forms, MaxIlos))
ManagerNext ==
    \/ \E req \in ManagerRequests : add_ilo(req)
    \/ \E req \in ManagerRequests : delete_ilo(req)
ManagerSpec == ManagerInit /\ [][ManagerNext]_vars

(***************************************************************************)
(* One statement of update_metrics_loop on its own:                        *)
(*     cached_metrics[f'{ip}_<probe>'] = <probe>(ip, site, ...)            *)
(***************************************************************************)
CallIlo(fn) ==
    /\ call.fn = fn /\ reply = NotCalled
    /\ reply' = RunIloProbe(fn, call.ilo.ip, call.ilo.site, call.net)
    /\ cached_metrics' =
           IF reply'.raised THEN cached_metrics
           ELSE SetItem(cached_metrics, KeyOf(call.ilo.ip, fn), reply'.text)
    /\ UNCHANGED <<idracs, pc, ti, pi, exc, ei, handlerVars, histVars,
                   listed, returned, adminVars, call>>

\* the same statement of idrac_exporter.py, for its summary probe
call_idrac_summary ==
    /\ call.fn = "summary_component_health" /\ reply = NotCalled
    /\ reply' = get_idrac_summary_component_health(call.ilo.ip, call.ilo.site,
                                                    call.net)
    /\ cached_metrics' =
           IF reply'.raised THEN cached_metrics
           ELSE SetItem(cached_metrics, KeyOf(call.ilo.ip, call.fn), reply'.text)
    /\ UNCHANGED <<idracs, pc, ti, pi, exc, ei, handlerVars, histVars,
                   listed, returned, adminVars, call>>

call_fan_info == CallIlo("fan_info")
call_storage_info == CallIlo("storage_info")
call_system_summary == CallIlo("system_summary")
call_temperature_info == CallIlo("temperature_info")
call_memory_total == CallIlo("memory_total")

\* the loop is about to make the call; the key is new, or holds the text of
\* an earlier cycle
ProbeInit ==
    /\ call \in Calls /\ reply = NotCalled
    /\ idracs = <<call.ilo>>
    /\ cached_metrics \in
           {<< >>, <<[k |-> KeyOf(call.ilo.ip, call.fn), v |-> ErrorMsg("earlier")]>>}
    /\ pc = "probe" /\ ti = 1 /\ pi = 0 /\ exc = "" /\ ei = 0
    /\ hpc = "idle" /\ it_used = 0 /\ it_pos = 0 /\ output = << >>
    /\ called = {} /\ failed = NoCall /\ ran = {}
    /\ readLog = << >> /\ tainted = FALSE /\ stable = NoOutput
    /\ ilos_json = idracs /\ ilos = idracs /\ listed = idracs
    /\ returned = << >>
    /\ request = NoRequest
ProbeNext ==
    \/ call_fan_info \/ call_storage_info \/ call_system_summary
    \/ call_temperature_info \/ call_memory_total
    \/ call_idrac_summary
ProbeSpec == ProbeInit /\ [][ProbeNext]_vars


(***************************************************************************)
(* Vocabulary of the properties.                                           *)
(***************************************************************************)
\* a line of the exposition format that is a metric sample: neither blank
\* nor a comment
IsMetricLine(l) == l.fam \notin {"", "#"}

\* the key of the probe call c = <<target index, probe index>>
CallKey(c) == KeyOf(idracs[c[1]].ip, ProbeSet[c[2]])

\* the probe calls of one full cycle
AllCalls == {<<t, p>> : t \in DOMAIN idracs, p \in DOMAIN ProbeSet}

\* the calls that come after call c in a cycle
CallsAfter(c) ==
    {d \in AllCalls : d[1] > c[1] \/ (d[1] = c[1] /\ d[2] > c[2])}

\* l is an error-family sample of target t with a description
IsErrorSampleOf(l, t) ==
    /\ l.fam = "idrac_exporter_error"
    /\ l.idrac_ip = t.ip
    /\ l.site = t.site
    /\ l.error # ""
    /\ l.value = 1

\* the text is the error-family sample of a primary call that was not a 200
IsPrimaryFailure(text) ==
    /\ Len(text) = 1
    /\ text[1].fam = "idrac_exporter_error"
    /\ text[1].error \in {"Failed to fetch server status",
                          "Failed to fetch fan info",
                          "Failed to fetch system summary"}

\* str(e) of every exception the loop-level handler can catch
Excs ==
    {"'site'"} \cup
    {r.exc : r \in {o \in UNION {Outcomes(p, t) : p \in {ProbeSet[i] : i \in DOMAIN ProbeSet},
                                                  t \in {T1, T2}} : o.raised}}

\* the values one write can store under key: a complete probe output of the
\* probe and target the key names, or the loop-level error line
WholeValues(key) ==
    {ErrorMsg(e) : e \in Excs} \cup
    UNION {{r.text : r \in {o \in Outcomes(ProbeSet[c[2]], idracs[c[1]]) : ~o.raised}}
           : c \in {d \in AllCalls : "site" \in DOMAIN idracs[d[1]] /\ CallKey(d) = key}}

\* the concatenation of the values of a sequence of entries
RECURSIVE Concat(_)
Concat(entries) ==
    IF entries = << >> THEN << >>
    ELSE entries[1].v \o Concat(Tail(entries))

(***************************************************************************)
(* C1.  If the call of probe P on target T raises, then after that cycle   *)
(* the cache entry of key (T,P) is exactly one error-family line carrying  *)
(* T's address, T's site and a non-empty description.                      *)
(* The code does not do this: the exception leaves the probe, the entry    *)
(* is not written by the call, and the loop-level handler stores a comment *)
(* line under the keys that exist.                                         *)
(***************************************************************************)
C1_RaisedProbeStoresErrorSample ==
    (pc = "sleep" /\ failed # NoCall) =>
        /\ HasKey(cached_metrics, CallKey(failed))
        /\ LET v == Lookup(cached_metrics, CallKey(failed))
           IN /\ Len(v) = 1
              /\ IsErrorSampleOf(v[1], idracs[failed[1]])

(***************************************************************************)
(* C2.  A failure of probe P on target T, an exception or a non-200        *)
(* response, leaves the entry of every other key as it was.                *)
(* The code keeps this for a non-200 response only: after an exception     *)
(* the loop-level handler overwrites every entry.                          *)
(***************************************************************************)
C2_FailureLeavesOtherKeys ==
    [][ /\ (pc = "probe" /\ failed' = NoCall
              /\ HasKey(cached_metrics', CallKey(<<ti, pi>>))
              /\ IsPrimaryFailure(Lookup(cached_metrics', CallKey(<<ti, pi>>))))
            => \A i \in DOMAIN cached_metrics :
                  cached_metrics[i].k # CallKey(<<ti, pi>>)
                      => cached_metrics'[i] = cached_metrics[i]
        /\ (pc \in {"probe", "except", "degrade"} /\ failed' # NoCall)
            => \A i \in DOMAIN cached_metrics :
                  cached_metrics[i].k # CallKey(failed')
                      => cached_metrics'[i] = cached_metrics[i]
      ]_vars

(***************************************************************************)
(* C3.  When a probe call raises, every later call of the cycle (the       *)
(* remaining probes of the target, every probe of every later target) is   *)
(* still made in that cycle.                                               *)
(* The code does not do this: the exception leaves the for loop.           *)
(***************************************************************************)
C3_LaterCallsStillMade ==
    (pc = "sleep" /\ failed # NoCall) => CallsAfter(failed) \subseteq called

(***************************************************************************)
(* C4.  A /metrics request always completes with a success response,       *)
(* whatever the loop thread does meanwhile.                                *)
(* The code does not do this: a key inserted while the handler iterates    *)
(* makes the iterator raise RuntimeError, and the request ends in a 500.   *)
(***************************************************************************)
C4_MetricsAlwaysSucceeds == hpc # "error"

(***************************************************************************)
(* C5.  When an exception reaches the loop-level handler, every key of the *)
(* cache has its entry replaced by the same single error line, no key is   *)
(* added or removed, and the thread goes on to its sleep.                  *)
(***************************************************************************)
C5_HandlerDegradesEveryEntry ==
    [][ (pc \in {"except", "degrade"}) =>
            /\ Keys(cached_metrics') = Keys(cached_metrics)
            /\ pc' \in {"degrade", "sleep"}
            /\ exc' = exc
            /\ (pc' = "sleep") =>
                  /\ Len(ErrorMsg(exc)) = 1
                  /\ ~IsMetricLine(ErrorMsg(exc)[1])
                  /\ \A i \in DOMAIN cached_metrics' :
                        cached_metrics'[i].v = ErrorMsg(exc)
      ]_vars

\* the handler has run over a cache of several keys
C5_Witness ==
    /\ pc = "sleep" /\ exc # ""
    /\ Len(cached_metrics) >= 2
    /\ \A i \in DOMAIN cached_metrics : cached_metrics[i].v = ErrorMsg(exc)

(***************************************************************************)
(* C6.  After every cycle, a cycle in which a probe raised or the          *)
(* loop-level handler ran included, a further cycle eventually begins.     *)
(***************************************************************************)
CycleBegun == pc = "for" /\ ti = 1 /\ called = {}

C6_NextCycleBegins == (pc \in {"except", "degrade", "sleep"}) ~> CycleBegun

\* a cycle begins over a cache the handler has degraded
C6_Witness ==
    /\ CycleBegun
    /\ Len(cached_metrics) >= 1
    /\ \A i \in DOMAIN cached_metrics : cached_metrics[i].v[1].fam = "#"

(***************************************************************************)
(* C7.  The text a request obtains for one key is a value one write stored *)
(* whole (a complete output of that key's probe, or the loop-level error   *)
(* line), and the body is the concatenation of these texts.                *)
(***************************************************************************)
C7_NoTornValue ==
    /\ \A i \in DOMAIN readLog : readLog[i].v \in WholeValues(readLog[i].k)
    /\ hpc \in {"iter", "ok"} => output = Concat(readLog)

\* the request has read a key that the loop has overwritten since
C7_Witness ==
    /\ hpc = "iter"
    /\ \E i \in DOMAIN readLog :
          /\ HasKey(cached_metrics, readLog[i].k)
          /\ Lookup(cached_metrics, readLog[i].k) # readLog[i].v

(***************************************************************************)
(* C8.  The /metrics handler never changes the cache and never starts a    *)
(* probe call: a step of the handler leaves the dict, the target list and  *)
(* the loop thread as they are.                                            *)
(***************************************************************************)
C8_HandlerOnlyReads ==
    [][ (hpc' # hpc \/ it_pos' # it_pos \/ output' # output) =>
            /\ cached_metrics' = cached_metrics
            /\ idracs' = idracs
            /\ called' = called
            /\ <<pc, ti, pi, ei, exc>>' = <<pc, ti, pi, ei, exc>>
      ]_vars

\* a request has read entries while the loop is between two probe calls
C8_Witness == hpc = "ok" /\ Len(readLog) >= 2 /\ pc = "probe"

(***************************************************************************)
(* C9.  Two consecutive /metrics reads with no cache write between them    *)
(* (none since the first began) return the same body.                      *)
(***************************************************************************)
C9_RepeatedReadIdentical ==
    (hpc = "ok" /\ ~tainted /\ stable # NoOutput) => output = stable

\* the second of two such reads has completed, with a body of several lines
C9_Witness ==
    /\ hpc = "ok" /\ ~tainted /\ stable # NoOutput
    /\ Len(output) >= 2

(***************************************************************************)
(* C10.  The exposition output holds at least one metric line for each     *)
(* (target, probe) pair whose probe has returned at least once.            *)
(* The code does not do this: a probe whose member list is empty stores a  *)
(* blank line, and the loop-level handler stores a comment line.           *)
(* Stated of the step in which a request completes its read: every key     *)
(* whose probe has returned by then has a metric line in what was read.    *)
(***************************************************************************)
C10_LinePerProbedPair ==
    [][ (hpc = "iter" /\ hpc' = "ok") =>
            \A key \in ran :
                \E i \in DOMAIN readLog :
                    /\ readLog[i].k = key
                    /\ \E j \in DOMAIN readLog[i].v :
                          IsMetricLine(readLog[i].v[j])
      ]_vars


(***************************************************************************)
(* C11: a target that add_ilo put in ilos.json before a cycle began has    *)
(* its entries in the cache once that cycle has ended without an           *)
(* exception: for every target the file listed when the cycle began and    *)
(* every probe, the key is in cached_metrics.                              *)
(***************************************************************************)
C11_ListedTargetProbed ==
    (pc = "sleep" /\ exc = "") =>
        \A i \in DOMAIN listed : \A p \in DOMAIN ProbeSet :
            HasKey(cached_metrics, KeyOf(listed[i].ip, ProbeSet[p]))


(***************************************************************************)
(* C12: no step of the loop or of the administration application removes   *)
(* a key from the cache: every key of cached_metrics is a key of it after  *)
(* the step, whether or not its target is still in ilos.json.              *)
(***************************************************************************)
C12_KeysNeverRemoved ==
    [][\A i \in DOMAIN cached_metrics :
           HasKey(cached_metrics', cached_metrics[i].k)]_vars

\* T1 was deleted from ilos.json before the cycle that has just ended began,
\* and its three entries are in the cache
C12_Witness ==
    /\ pc = "sleep"
    /\ ~AnyIp(listed, T1.ip) /\ ~AnyIp(ilos_json, T1.ip)
    /\ KeysOfList(<<T1>>) \subseteq {cached_metrics[i].k : i \in DOMAIN cached_metrics}


\* the first request of the probe called was answered, and not with 200
PrimaryNon200 ==
    /\ call.fn \in IloProbes
    /\ LET r == requests_get(call.net, PrimaryPath(call.fn)) IN
           r.kind = "http" /\ r.status # 200

\* the values stored under a key
ValuesAt(key) ==
    {cached_metrics[i].v : i \in {j \in DOMAIN cached_metrics :
                                      cached_metrics[j].k = key}}

(***************************************************************************)
(* C13: a probe whose first request is answered with a status other than   *)
(* 200 returns one line and no more: an ilo_exporter_error sample with the *)
(* target's address, its site, a non-empty error text and the value 1; the *)
(* loop's assignment leaves that text, and nothing else, under the key.    *)
(***************************************************************************)
C13_PrimaryNon200OneErrorLine ==
    (reply # NotCalled /\ PrimaryNon200) =>
        /\ ~reply.raised
        /\ Len(reply.text) = 1
        /\ LET l == reply.text[1] IN
               /\ DOMAIN l = {"fam", "ilo_ip", "site", "error", "value"}
               /\ l.fam = "ilo_exporter_error"
               /\ l.ilo_ip = call.ilo.ip /\ l.site = call.ilo.site
               /\ l.error # "" /\ l.value = 1
        /\ ValuesAt(KeyOf(call.ilo.ip, call.fn)) = {reply.text}
        /\ Len(cached_metrics) = 1

\* the controller list was answered 503: the storage probe returned its one
\* error line, which names the status
C13_Witness ==
    /\ reply # NotCalled /\ PrimaryNon200
    /\ call.fn = "storage_info"
    /\ requests_get(call.net, ControllersPath).status = 503
    /\ reply.text[1].error = "Storage controller access error 503"


\* the ordinal of a health string
Ordinal(h) ==
    IF h \in {"OK", "Enabled"} THEN 0
    ELSE IF h = "Warning" THEN 1
    ELSE IF h = "Critical" THEN 2
    ELSE IF h = "Absent" THEN 3
    ELSE IF h = "Disabled" THEN 5
    ELSE 4

\* the families whose value is the ordinal of a health
OrdinalFamilies ==
    {"ilo_system_status", "ilo_summary_component_health",
     "idrac_system_status", "idrac_summary_component_health"}

(***************************************************************************)
(* C14: every line the summary probes return for a health carries its      *)
(* ordinal: OK and Enabled 0, Warning 1, Critical 2, Absent 3, Disabled 5,  *)
(* Unknown and any other string 4, a missing Health 4; the value is in     *)
(* 0..5.                                                                   *)
(***************************************************************************)
C14_HealthOrdinalTotal ==
    (reply # NotCalled /\ ~reply.raised) =>
        /\ \A i \in DOMAIN reply.text :
               reply.text[i].fam \in OrdinalFamilies =>
                   /\ reply.text[i].value = Ordinal(reply.text[i].health)
                   /\ reply.text[i].value \in 0..5
        /\ (call.fn = "system_summary" /\ ~PrimaryNon200) =>
               LET st == Get(requests_get(call.net, SystemPath).json,
                             "Status", EmptyObj)
               IN /\ reply.text[1].fam = "ilo_system_status"
                  /\ reply.text[1].value =
                         IF "Health" \in DOMAIN st THEN Ordinal(st.Health) ELSE 4

\* the system's health is a string status_map does not hold, one component's
\* health is mapped and another component has no Status
C14_Witness ==
    /\ reply # NotCalled /\ ~reply.raised /\ call.fn = "system_summary"
    /\ Len(reply.text) = 3
    /\ reply.text[1].health = "Degraded" /\ reply.text[1].value = 4
    /\ reply.text[2].health = "Disabled" /\ reply.text[2].value = 5
    /\ reply.text[3].component = "Memory" /\ reply.text[3].value = 4


(***************************************************************************)
(* C15: when a cycle has ended without an exception, every probe of every  *)
(* target was called once in it and no more, and the cache holds under     *)
(* each pair's key one entry, whose value is the text that call returned.  *)
(***************************************************************************)
C15_CleanCycleStoresEachReturn ==
    (pc = "sleep" /\ exc = "") =>
        /\ Len(returned) = Cardinality(AllCalls)
        /\ \A c \in AllCalls : \E i \in DOMAIN returned : returned[i].c = c
        /\ \A i \in DOMAIN returned :
               LET key == CallKey(returned[i].c) IN
               /\ Cardinality({j \in DOMAIN cached_metrics :
                                   cached_metrics[j].k = key}) = 1
               /\ ValuesAt(key) = {returned[i].text}

\* a cycle over two targets ended without an exception: the first target's
\* status was refused, the second target's fans were read
C15_Witness ==
    /\ pc = "sleep" /\ exc = "" /\ Len(idracs) = 2
    /\ Len(returned) = 6
    /\ returned[1].text[1].fam = "idrac_exporter_error"
    /\ returned[5].text[1].fam = "idrac_fan_info"


\* the storage probe was called, read the controller list and returned
StorageListRead ==
    /\ reply # NotCalled /\ ~reply.raised
    /\ call.fn = "storage_info" /\ ~PrimaryNon200

\* the members of the controller list the storage probe read
StorageMembers ==
    Get(requests_get(call.net, ControllersPath).json, "Members", << >>)

\* the members whose read was answered with another status than 200
FailedMembers ==
    {i \in DOMAIN StorageMembers :
        requests_get(call.net, StorageMembers[i]["@odata.id"]).status # 200}

\* the lines of family fam in what the probe returned
LinesOf(fam) == {j \in DOMAIN reply.text : reply.text[j].fam = fam}

\* each controller that was read has its status line, and the lines of family
\* fam are as many as the members that failed, each with the target's labels
PartialStorage(fam) ==
    /\ \A i \in DOMAIN StorageMembers \ FailedMembers :
           \E j \in LinesOf("ilo_storage_controller_status") :
               reply.text[j].model =
                   Get(requests_get(call.net, StorageMembers[i]["@odata.id"]).json,
                       "Model", "Inconnu")
    /\ Cardinality(LinesOf("ilo_storage_controller_status")) =
           Len(StorageMembers) - Cardinality(FailedMembers)
    /\ Cardinality(LinesOf(fam)) = Cardinality(FailedMembers)
    /\ \A j \in LinesOf(fam) :
           /\ reply.text[j].ilo_ip = call.ilo.ip
           /\ reply.text[j].site = call.ilo.site
           /\ reply.text[j].value = 1

(***************************************************************************)
(* C16: when the storage probe has read the controller list and the read   *)
(* of a member is answered with another status than 200, what it returns   *)
(* has the status line of every controller that was read and, for each     *)
(* member that failed and for no other, one ilo_exporter_error sample.     *)
(***************************************************************************)
C16_FailedMemberExporterError ==
    StorageListRead => PartialStorage("ilo_exporter_error")


\* no address is twice in a list
NoAddressTwice(list) ==
    \A i, j \in DOMAIN list : list[i].ip = list[j].ip => i = j

(***************************************************************************)
(* C17: a request to /add or /delete/<ip> leaves a list in which no        *)
(* address is twice, in memory and in the file; a POST to /add whose       *)
(* address is in the list leaves the list and the file as they were.       *)
(***************************************************************************)
C17_AddressesStayUnique ==
    [][/\ NoAddressTwice(ilos') /\ NoAddressTwice(ilos_json')
       /\ (request'.route = "/add" /\ request'.method = "POST"
             /\ AnyIp(ilos, request'.form.ip)) =>
              (ilos' = ilos /\ ilos_json' = ilos_json)]_vars

\* /add was posted with a listed address and another site: the record that
\* was listed first is still the one in the list and in the file
C17_Witness ==
    /\ request.route = "/add" /\ request.method = "POST" /\ request.sites
    /\ Len(ilos) = 2 /\ ilos_json = ilos
    /\ \E i \in DOMAIN ilos :
           ilos[i].ip = request.form.ip /\ ilos[i].site # request.form.site


\* the substrings that make a temperature sensor one of the five kinds, in
\* the order they are tried, each with its label
SensorKinds ==
    <<[sub |-> <<"C", "P", "U">>, label |-> "cpu"],
      [sub |-> <<"I", "n", "l", "e", "t">>, label |-> "inlet"],
      [sub |-> <<"A", "m", "b", "i", "e", "n", "t">>, label |-> "ambient"],
      [sub |-> <<"C", "h", "i", "p", "s", "e", "t">>, label |-> "chipset"],
      [sub |-> <<"B", "M", "C">>, label |-> "bmc"]>>

\* the kinds, by their place in SensorKinds, whose substring a raw name holds
KindsOf(sensor) ==
    {k \in DOMAIN SensorKinds :
        "Name" \in DOMAIN sensor /\ Contains(sensor.Name, SensorKinds[k].sub)}

\* the sensor has a reading
HasReading(sensor) ==
    "ReadingCelsius" \in DOMAIN sensor /\ sensor.ReadingCelsius.t = "num"

\* the sensors the temperature probe was given
SensorsRead ==
    Get(requests_get(call.net, ThermalPath).json, "Temperatures", << >>)

\* those of them that have a reading and a kind, in order
SensorsKept ==
    SelectSeq(SensorsRead, LAMBDA sensor : HasReading(sensor) /\ KindsOf(sensor) # {})

\* the temperature probe was called, its request was answered 200 and it
\* returned
TemperaturesRead ==
    /\ reply # NotCalled /\ ~reply.raised
    /\ call.fn = "temperature_info" /\ ~PrimaryNon200

(***************************************************************************)
(* C18: the temperature probe returns one line for each sensor that has a  *)
(* reading and whose raw name holds CPU, Inlet, Ambient, Chipset or BMC    *)
(* (upper and lower case told apart), in the order of the sensors and      *)
(* labelled with the first of the five that the name holds; a sensor       *)
(* without reading or without any of the five gets no line of any family.  *)
(***************************************************************************)
C18_TemperatureLineIffKnownKind ==
    TemperaturesRead =>
        IF SensorsKept = << >> THEN reply.text = <<BlankLine>>
        ELSE /\ Len(reply.text) = Len(SensorsKept)
             /\ \A i \in DOMAIN SensorsKept :
                    LET first == CHOOSE k \in KindsOf(SensorsKept[i]) :
                                     \A m \in KindsOf(SensorsKept[i]) : k <= m
                    IN /\ reply.text[i].fam = "ilo_temperature_celsius"
                       /\ reply.text[i].sensor = SensorKinds[first].label
                       /\ reply.text[i].name = CleanName(SensorsKept[i].Name)
                       /\ reply.text[i].value = SensorsKept[i].ReadingCelsius.v

\* a sensor named with Inlet and Ambient read 0 and one named in lower case
\* read 40: one line, labelled inlet, with the value 0
C18_Witness ==
    /\ TemperaturesRead
    /\ Len(SensorsRead) = 2 /\ Len(reply.text) = 1
    /\ HasReading(SensorsRead[1]) /\ Cardinality(KindsOf(SensorsRead[1])) = 2
    /\ HasReading(SensorsRead[2]) /\ KindsOf(SensorsRead[2]) = {}
    /\ "Name" \in DOMAIN SensorsRead[2]
    /\ reply.text[1].sensor = "inlet" /\ reply.text[1].value = 0


\* the GB of a CapacityMiB field, in hundredths: a number divided by 1024,
\* anything else 0
GbOf(obj) ==
    IF "CapacityMiB" \in DOMAIN obj /\ obj.CapacityMiB.t = "num"
    THEN RoundHalfEven(obj.CapacityMiB.v * 100, 1024)
    ELSE 0

\* the drive every drive list of the iLO called names
DriveRead == requests_get(call.net, DiskOf(Ctrl1))

\* the memory probe was called and each of its requests was answered: the
\* list with 200, each module with a JSON body
MemoryAnswered ==
    /\ reply # NotCalled /\ call.fn = "memory_total"
    /\ requests_get(call.net, MemoryPath) \in
           {Http(200, [Members |-> <<Ref(Dimm1), Ref(Dimm2)>>])}
    /\ \A d \in {Dimm1, Dimm2} : requests_get(call.net, d).decodable

\* the GB of a memory module, nothing when it is not served
DimmGb(d) ==
    LET r == requests_get(call.net, d) IN
    IF r.status = 200 THEN GbOf(r.json) ELSE 0

(***************************************************************************)
(* C19: the capacity a probe shows is CapacityMiB / 1024 when the field is *)
(* a number and 0 when it is a string, null or missing: in the disk lines  *)
(* of the storage probe, and in the total of the memory probe, which       *)
(* returns whatever the CapacityMiB of its modules are.                    *)
(***************************************************************************)
C19_NonNumericCapacityIsZero ==
    /\ (reply # NotCalled /\ ~reply.raised /\ call.fn = "storage_info") =>
           \A j \in LinesOf("ilo_storage_physical_disk")
                     \cup LinesOf("ilo_storage_logical_disk") :
               reply.text[j].capacity_gb = GbOf(DriveRead.json)
    /\ MemoryAnswered =>
           /\ ~reply.raised
           /\ reply.text[1].fam = "ilo_memory_total_gb"
           /\ reply.text[1].gb_x100 = DimmGb(Dimm1) + DimmGb(Dimm2)

=============================================================================
